---------------------------- MODULE Spec2Model ----------------------------
(***************************************************************************)
(* Model of the quality-assessment and best-of-N selection code of the     *)
(* ai-puzzle-mvp repository.                                                *)
(*                                                                          *)
(*   Spec         the benchmark runner (src/src/benchmark_runner.py):       *)
(*                parse_args, run_benchmarks, run_single_benchmark,         *)
(*                append_result.  One action per loop iteration of          *)
(*                run_benchmarks; the outcomes of the external calls        *)
(*                (preprocess, backend.generate, download, face swap,       *)
(*                quality scoring) are inputs of that action.               *)
(*   SpecQuality  the composite scorer and the signal extractors            *)
(*                (src/src/quality/): assess_quality, assess_image_quality, *)
(*                score_*, score_face_similarity, _detect_faces.            *)
(*   SpecFaceApp  the lazily loaded detection model (_get_face_app in      *)
(*                src/src/quality/face_similarity.py) called from the      *)
(*                threads of the web application (src/web/app.py).         *)
(*   SpecReport   the report generator (src/src/benchmark_report.py):      *)
(*                load_results, compute_stats, generate_summary_table,     *)
(*                generate_per_photo_table, generate_comparison, main.     *)
(*   SpecJobs     the jobs of the web application (src/web/app.py,         *)
(*                src/web/jobs.py): upload, _process_job and the steps of  *)
(*                fulfill_order it waits for.  SpecJobsFair adds that a    *)
(*                started background task keeps running.                   *)
(*                                                                          *)
(* Fixed-point units: a score "in tenths" is the score times 10 (the code   *)
(* rounds scores to one decimal); the composite is kept in 1e-5 points so   *)
(* that weight x signal is exact for every signal resolution below.         *)
(***************************************************************************)
EXTENDS Integers, Sequences, FiniteSets, TLC

VARIABLES
    \* ---- benchmark runner (Spec) ----
    pc,             \* where the runner is: "cli", "call", "running", "done",
                    \* "usage_error" (parser.error), "raised" (uncaught exception)
    cfg,            \* the arguments of run_benchmarks
    unit,           \* <<backend index, photo index, style index>> of the three for-loops
    run_idx,        \* the inner loop variable, range(best_of)
    run_records,    \* run_records of the current unit
    log,            \* the lines of results.jsonl, in file order
    completed,      \* run_benchmarks' counter
    errors,         \* run_benchmarks' counter
    best_results,   \* run_benchmarks' best_results list
    started,        \* number of run_single_benchmark calls made
    generateCalls,  \* number of backend.generate calls made
    gen_kwargs,     \* the gen_kwargs of each backend.generate call, in order
    saved,          \* the generated images saved under output_dir, in order:
                    \* the path and the number of the attempt that saved it
    \* ---- composite scorer (SpecQuality) ----
    qpc,            \* "idle", "input" (arguments drawn), "returned", "raised"
    qin,            \* the arguments and the files assess_quality is called on
    qout,           \* what assess_quality returned
    \* ---- face-detection model handle (SpecFaceApp) ----
    _app,           \* the module global of face_similarity.py: 0 is None, h > 0
                    \* is the h-th FaceAnalysis instance constructed
    tpc,            \* per thread, where it is in _get_face_app: "idle",
                    \* "construct" (saw _app is None), "prepare", "return"
    prepares,       \* prepares[h]: number of completed prepare calls on instance h
    calls,          \* per thread, number of finished _get_face_app calls
    got,            \* per thread, what its last finished call handed back
    \* ---- benchmark report (SpecReport) ----
    rpc,            \* "idle", "input" (files and arguments drawn), "ran"
    files,          \* the files the report can touch: path -> [label, lines]
    rargs,          \* the parsed arguments of benchmark_report.main
    reports,        \* the outcome of each run of main so far, in order
    \* ---- web jobs (SpecJobs) ----
    jobs,           \* the jobs table: job id -> [status, current_step, photo]
    task            \* the background task of each job: "none", "queued",
                    \* "running", "ended" (returned) or "exited" (left by an
                    \* exception nobody caught)

batchVars == <<pc, cfg, unit, run_idx, run_records, log, completed, errors,
               best_results, started, generateCalls, gen_kwargs, saved>>
qualVars == <<qpc, qin, qout>>
appVars == <<_app, tpc, prepares, calls, got>>
reportVars == <<rpc, files, rargs, reports>>
jobVars == <<jobs, task>>
vars == <<batchVars, qualVars, appVars, reportVars, jobVars>>

\* What each specification leaves alone.
notBatch == <<qualVars, appVars, reportVars, jobVars>>
notQual == <<batchVars, appVars, reportVars, jobVars>>
notApp == <<batchVars, qualVars, reportVars, jobVars>>
notReport == <<batchVars, qualVars, appVars, jobVars>>
notJobs == <<batchVars, qualVars, appVars, reportVars>>

-----------------------------------------------------------------------------
(* Bounds of the model *)

\* largest --best-of N
MaxBestOf == 4
\* largest number of photos in a batch
MaxPhotos == 2
\* largest number of attempts (units x best_of) of a batch
MaxRuns == 4
\* threads that score concurrently (web background tasks)
MaxThreads == 3
\* _get_face_app calls per thread
MaxCalls == 2
\* lines of a results.jsonl file
MaxLines == 3
\* jobs uploaded to the web application
MaxJobs == 2

-----------------------------------------------------------------------------
(* Registries *)

\* backends/registry.py: the registered backends
_BACKENDS == {"flux_kontext"}

\* style_presets.py: active styles (all set face_swap: False)
STYLE_PRESETS == {"animation_village"}

\* style_presets.py: shelved styles (no face_swap key: defaults to True)
_SHELVED_STYLES == {"storybook_cartoon"}

\* registry.get_backend raises ValueError for an unknown name
BackendKnown(name) == name \in _BACKENDS

\* style_presets.get_style raises ValueError for an unknown id
StyleKnown(style_id) == style_id \in (STYLE_PRESETS \cup _SHELVED_STYLES)

\* style.get("face_swap", True)
StyleFaceSwap(style_id) == style_id \notin STYLE_PRESETS

-----------------------------------------------------------------------------
(* Inputs of a batch *)

\* photo paths as find_test_photos gives them (sorted; the scan of input/ is
\* recursive, so one file name can come from two folders)
AllPhotos ==
    <<"input/a/kid.jpg", "input/b/kid.jpg", "input/c/cat.jpg", "input/d/bird.jpg">>

\* the first n of AllPhotos, for n up to MaxPhotos
PhotoLists == { SubSeq(AllPhotos, 1, n) : n \in 1..MaxPhotos }

BackendLists ==
    { <<"flux_kontext">>, <<"sdxl">>, <<"flux_kontext", "sdxl">> }

StyleLists ==
    { <<"storybook_cartoon">>,
      <<"storybook_cartoon", "animation_village">>,
      <<"storybook_cartoon", "watercolor">>, <<"watercolor">> }

\* an Optional[int] is a sequence of length 0 (None) or 1
Seeds == { <<>>, <<0>>, <<42>> }

\* composite scores (points) the scorer may return in a batch
Scores == {40, 55, 82}

Configs ==
    { c \in [backends : BackendLists, photos : PhotoLists, styles : StyleLists,
             do_face_swap : BOOLEAN, do_quality : BOOLEAN, do_preprocess : BOOLEAN,
             seed : Seeds, best_of : 1..MaxBestOf] :
        Len(c.backends) * Len(c.photos) * Len(c.styles) * c.best_of <= MaxRuns }


-----------------------------------------------------------------------------
(* run_single_benchmark *)

\* What the external collaborators of one attempt do.  pre: preprocess
\* align_and_crop; gen: backend.generate; dl: download_image (requests.get with
\* timeout=120); swap: run_face_swap; qual: run_quality_scoring.
QualOutcomes ==
    { [raised |-> TRUE, composite_score |-> 0] } \cup
    { [raised |-> FALSE, composite_score |-> s] : s \in Scores }

\* an outcome of every collaborator; a step that is not reached is "ok"
Env(pre, gen, dl, swap, qual) ==
    [pre |-> pre, gen |-> gen, dl |-> dl, swap |-> swap, qual |-> qual]

NotScored == [raised |-> TRUE, composite_score |-> 0]

\* preprocess.align_and_crop (imported at line 169): returns a status, "aligned"
\* or another one, or raises (the import itself raises when the module is absent)
AlignAndCropOutcomes == {"aligned", "no_face", "raise"}

\* The outcomes of the collaborators in one attempt, each behaviour of the
\* attempt drawn once: a step that is not reached has a fixed outcome.
EnvFor(style_id, do_face_swap, do_quality, do_preprocess) ==
    IF ~StyleKnown(style_id)
    THEN { Env("aligned", "ok", "ok", "ok", NotScored) }
    ELSE UNION { IF pre = "raise"
                 THEN { Env(pre, "ok", "ok", "ok", NotScored) }
                 ELSE { Env(pre, "error", "ok", "ok", NotScored),
                        Env(pre, "ok", "error", "ok", NotScored),
                        Env(pre, "ok", "timeout", "ok", NotScored) }
                      \cup { Env(pre, "ok", "ok", swap, qual) :
                               swap \in (IF do_face_swap /\ StyleFaceSwap(style_id)
                                         THEN {"ok", "error"} ELSE {"ok"}),
                               qual \in (IF do_quality THEN QualOutcomes
                                         ELSE {NotScored}) }
               : pre \in (IF do_preprocess THEN AlignAndCropOutcomes
                          ELSE {"aligned"}) }

\* record["quality"]: absent (quality off, or the attempt failed before step 3),
\* {"status": "error"} (scoring raised), or the dict assess_quality returned
QualityAbsent == [kind |-> "absent", composite_score |-> 0]
QualityError == [kind |-> "error", composite_score |-> 0]
QualityScored(s) == [kind |-> "scored", composite_score |-> s]

\* the mutant: `if seed` in place of `if seed is not None`
ActualSeedTruthy(seed, run_index) ==
    IF seed = <<>> \/ seed[1] = 0 THEN <<>> ELSE <<seed[1] + run_index>>

\* actual_seed = (seed + run_index) if seed is not None else None
ActualSeed(seed, run_index) ==
    IF seed = <<>> THEN <<>> ELSE <<seed[1] + run_index>>

\* line 203: gen_kwargs = {"seed": actual_seed}, what backend.generate is given
GenKwargs(seed, run_index) == [seed |-> ActualSeed(seed, run_index)]

\* Path(photo_path).stem: the file name without directories and extension
Stem(photo_path) ==
    CASE photo_path = "input/a/kid.jpg" -> "kid"
      [] photo_path = "input/b/kid.jpg" -> "kid"
      [] photo_path = "input/c/cat.jpg" -> "cat"
      [] photo_path = "input/d/bird.jpg" -> "bird"

\* suffix = f"_run{run_index}" if run_index > 0 else "", kept as the index
Suffix(run_index) == IF run_index > 0 THEN <<"_run", run_index>> ELSE <<>>

\* output_dir / f"{backend_name}_{style_id}_{photo_stem}{suffix}.png": a file
\* name is kept as the parts it is formatted from
OutputPath(backend_name, style_id, photo_path, run_index) ==
    <<backend_name, style_id, Stem(photo_path), Suffix(run_index), ".png">>

\* The RunRecord fields the model keeps (timestamps, prompt, elapsed seconds,
\* costs, image sizes and the face-swap and preprocess metadata are left out).
RunRecord(backend_name, photo_path, style_id, seed, run_index, status, error, quality) ==
    [backend |-> backend_name, photo |-> photo_path, style |-> style_id,
     seed |-> ActualSeed(seed, run_index), run_index |-> run_index,
     status |-> status, error |-> error, quality |-> quality]

\* str(e) of the exception the outer except clause caught; "" when none
AttemptError(e) ==
    IF e.gen = "error" THEN "generation failed"
    ELSE IF e.dl = "error" THEN "download failed"
    ELSE IF e.dl = "timeout" THEN "download timed out"
    ELSE ""

\* step 3 of the try block: record["quality"]
AttemptQuality(do_quality, e) ==
    IF ~do_quality THEN QualityAbsent
    ELSE IF e.qual.raised THEN QualityError
    ELSE QualityScored(e.qual.composite_score)

\* Variant of run_single_benchmark: the try block does not cover the download,
\* so a failed or timed-out download leaves the function as an exception.
run_single_benchmark_download_outside_try(backend_name, photo_path, style_id, do_face_swap, do_quality, do_preprocess, seed, run_index, e) ==
    LET none == RunRecord(backend_name, photo_path, style_id, seed, run_index,
                          "none", "", QualityAbsent)
    IN  IF ~BackendKnown(backend_name) \/ ~StyleKnown(style_id)
        THEN [raised |-> TRUE, generated |-> FALSE, record |-> none]
        ELSE IF do_preprocess /\ e.pre = "raise"
        THEN [raised |-> TRUE, generated |-> FALSE, record |-> none]
        ELSE IF e.gen = "ok" /\ e.dl # "ok"
        THEN [raised |-> TRUE, generated |-> TRUE, record |-> none]
        ELSE IF AttemptError(e) # ""
        THEN [raised |-> FALSE, generated |-> TRUE,
              record |-> RunRecord(backend_name, photo_path, style_id, seed, run_index,
                                   "error", AttemptError(e), QualityAbsent)]
        ELSE [raised |-> FALSE, generated |-> TRUE,
              record |-> RunRecord(backend_name, photo_path, style_id, seed, run_index,
                                   "success", "", AttemptQuality(do_quality, e))]

\* run_single_benchmark: raised is TRUE when an exception leaves the function
\* (get_backend, get_style and the preprocess block are outside the try);
\* generated tells whether backend.generate was called.
run_single_benchmark(backend_name, photo_path, style_id, do_face_swap, do_quality, do_preprocess, seed, run_index, e) ==
    LET none == RunRecord(backend_name, photo_path, style_id, seed, run_index,
                          "none", "", QualityAbsent)
    IN  IF ~BackendKnown(backend_name) \/ ~StyleKnown(style_id)
        THEN [raised |-> TRUE, generated |-> FALSE, record |-> none]
        ELSE IF do_preprocess /\ e.pre = "raise"
        THEN [raised |-> TRUE, generated |-> FALSE, record |-> none]
        ELSE IF AttemptError(e) # ""
        THEN [raised |-> FALSE, generated |-> TRUE,
              record |-> RunRecord(backend_name, photo_path, style_id, seed, run_index,
                                   "error", AttemptError(e), QualityAbsent)]
        ELSE [raised |-> FALSE, generated |-> TRUE,
              record |-> RunRecord(backend_name, photo_path, style_id, seed, run_index,
                                   "success", "", AttemptQuality(do_quality, e))]

\* The generated image attempt number n saves: download_image (line 216)
\* saves it under output_path once the download succeeded.  The swapped
\* image of the attempt (line 233) goes to the same name ending in
\* _swapped.png; like the face-swap fields of the record it is not kept.
Saves(backend_name, photo_path, style_id, run_index, n, r, e) ==
    IF r.raised \/ ~r.generated \/ AttemptError(e) # "" THEN <<>>
    ELSE <<[path |-> OutputPath(backend_name, style_id, photo_path, run_index),
            by |-> n]>>

-----------------------------------------------------------------------------
(* run_benchmarks *)

\* append_result: one more line at the end of results.jsonl
append_result(record, results_file) == Append(results_file, record)

\* r.get("quality", {}).get("composite_score") is not None
HasComposite(r) == r.quality.kind = "scored"

\* scored = [r for r in run_records if ... is not None]
Scored(records) == SelectSeq(records, HasComposite)

\* Variant of MaxByComposite: the last of the largest (max with >= in place of >).
MaxByCompositeLast(scored) ==
    LET i == CHOOSE i \in 1..Len(scored) :
                /\ \A j \in 1..Len(scored) :
                      scored[j].quality.composite_score <= scored[i].quality.composite_score
                /\ \A j \in (i + 1)..Len(scored) :
                      scored[j].quality.composite_score < scored[i].quality.composite_score
    IN  scored[i]

\* max(scored, key=...): the first element whose key is the largest
MaxByComposite(scored) ==
    LET i == CHOOSE i \in 1..Len(scored) :
                /\ \A j \in 1..Len(scored) :
                      scored[j].quality.composite_score <= scored[i].quality.composite_score
                /\ \A j \in 1..(i - 1) :
                      scored[j].quality.composite_score < scored[i].quality.composite_score
    IN  scored[i]

\* lines 401-407: best_results after a unit's attempts
SelectBest(best, records, best_of, do_quality) ==
    IF best_of > 1 /\ records # <<>> /\ do_quality /\ Scored(records) # <<>>
    THEN Append(best, MaxByComposite(Scored(records)))
    ELSE best

\* the three nested for-loops: the unit after u, or <<>> after the last one
NextUnit(u, c) ==
    IF u[3] < Len(c.styles) THEN <<u[1], u[2], u[3] + 1>>
    ELSE IF u[2] < Len(c.photos) THEN <<u[1], u[2] + 1, 1>>
    ELSE IF u[1] < Len(c.backends) THEN <<u[1] + 1, 1, 1>>
    ELSE <<>>

\* parse_args: argparse rejects a backend outside choices=all_backends, and
\* parser.error ends the process when --best-of > 1 comes without --quality.
ParseArgs ==
    /\ pc = "cli"
    /\ pc' = IF \/ \E i \in 1..Len(cfg.backends) : ~BackendKnown(cfg.backends[i])
                \/ (cfg.best_of > 1 /\ ~cfg.do_quality)
             THEN "usage_error" ELSE "call"
    /\ UNCHANGED <<cfg, unit, run_idx, run_records, log, completed, errors,
                   best_results, started, generateCalls, gen_kwargs, saved>>
    /\ UNCHANGED notBatch

\* run_benchmarks up to its loops (lines 327-372): the cost estimate calls
\* get_backend on every backend; the counters start at 0.
StartBatch ==
    /\ pc = "call"
    /\ pc' = IF \E i \in 1..Len(cfg.backends) : ~BackendKnown(cfg.backends[i])
             THEN "raised" ELSE "running"
    /\ unit' = <<1, 1, 1>>
    /\ run_idx' = 0
    /\ completed' = 0
    /\ errors' = 0
    /\ best_results' = <<>>
    /\ UNCHANGED <<cfg, run_records, log, started, generateCalls, gen_kwargs, saved>>
    /\ UNCHANGED notBatch

\* Variant of IsSuccess: `if record["status"]:`, true of every record.
IsSuccessTruthy(record) == record.status # ""

\* line 394: record["status"] == "success"
IsSuccess(record) == record.status = "success"

\* One iteration of `for run_idx in range(best_of)` (lines 377-407) with the
\* collaborators behaving as e, with the unit's selection after the last
\* attempt and the end of the batch after the last unit.  run_records = [] is
\* the first statement of a unit.
RunAttemptWith(e) ==
    /\ pc = "running"
    /\ LET r == run_single_benchmark(cfg.backends[unit[1]], cfg.photos[unit[2]],
                                     cfg.styles[unit[3]], cfg.do_face_swap,
                                     cfg.do_quality, cfg.do_preprocess, cfg.seed,
                                     run_idx, e)
           before == IF run_idx = 0 THEN <<>> ELSE run_records
           after == IF IsSuccess(r.record) THEN Append(before, r.record) ELSE before
           last == run_idx + 1 = cfg.best_of
       IN  /\ started' = started + 1
           /\ generateCalls' = generateCalls + (IF r.generated THEN 1 ELSE 0)
           /\ gen_kwargs' = IF r.generated
                            THEN Append(gen_kwargs, GenKwargs(cfg.seed, run_idx))
                            ELSE gen_kwargs
           /\ saved' = saved \o Saves(cfg.backends[unit[1]], cfg.photos[unit[2]],
                                       cfg.styles[unit[3]], run_idx, started + 1,
                                       r, e)
           /\ IF r.raised
              THEN /\ pc' = "raised"
                   /\ run_records' = before
                   /\ UNCHANGED <<unit, run_idx, log, completed, errors, best_results>>
              ELSE /\ log' = append_result(r.record, log)
                   /\ completed' = completed + (IF IsSuccess(r.record) THEN 1 ELSE 0)
                   /\ errors' = errors + (IF IsSuccess(r.record) THEN 0 ELSE 1)
                   /\ run_records' = after
                   /\ best_results' = IF last
                                      THEN SelectBest(best_results, after, cfg.best_of,
                                                      cfg.do_quality)
                                      ELSE best_results
                   /\ run_idx' = IF last THEN 0 ELSE run_idx + 1
                   /\ unit' = IF last /\ NextUnit(unit, cfg) # <<>>
                              THEN NextUnit(unit, cfg) ELSE unit
                   /\ pc' = IF last /\ NextUnit(unit, cfg) = <<>>
                            THEN "done" ELSE "running"
    /\ UNCHANGED cfg
    /\ UNCHANGED notBatch

RunAttempt ==
    /\ pc = "running"
    /\ \E e \in EnvFor(cfg.styles[unit[3]], cfg.do_face_swap, cfg.do_quality,
                       cfg.do_preprocess) : RunAttemptWith(e)

-----------------------------------------------------------------------------
(* Signal extractors: src/src/quality/image_quality.py *)

\* round(n / d) for n >= 0, d > 0, ties to the even neighbour (Python's round)
Round(n, d) ==
    LET q == n \div d
        r == n % d
    IN  IF 2 * r < d THEN q
        ELSE IF 2 * r > d THEN q + 1
        ELSE IF q % 2 = 0 THEN q ELSE q + 1

\* min(hi, max(lo, x))
Clamp(x, lo, hi) == IF x < lo THEN lo ELSE IF x > hi THEN hi ELSE x

\* what a call gives back: a value, or an exception
Returned(v) == [raised |-> FALSE, value |-> v]
Raised == [raised |-> TRUE, value |-> 0]

\* print_specs.PUZZLE_SPECS: print_width_px, print_height_px per piece count
PUZZLE_SPECS ==
    [pieces \in {500, 1000} |->
        IF pieces = 500 THEN [print_width_px |-> 4800, print_height_px |-> 6000]
        ELSE [print_width_px |-> 6000, print_height_px |-> 8400]]

\* An image file as the extractors see it:
\*   readable        cv2.imread gives an array and PIL's Image.open succeeds
\*   mean_sat        mean of the HSV S channel, 0..255
\*   high_sat_pct    percent of pixels with S > 80
\*   edge_density    percent of Canny edge pixels, in tenths of a percent
\*   avg_entropy     mean channel histogram entropy, in hundredths of a bit
\*   w, h            pixel size
\*   faces           what FaceAnalysis.get returns, in its order: each face a
\*                   det_score (1e-5) and an embedding (named)

\* the mutant: the blend is not clamped
score_color_vibrancy_unclamped(img) ==
    IF ~img.readable THEN Returned(0)
    ELSE Returned(Round(375 * img.mean_sat + 400 * img.high_sat_pct, 100))

\* score_color_vibrancy, in tenths: 0.0 when cv2.imread returns None
score_color_vibrancy(img) ==
    IF ~img.readable THEN Returned(0)
    ELSE Returned(Round(Clamp(375 * img.mean_sat + 400 * img.high_sat_pct, 0, 100000),
                        100))

\* the mutant: the sweet spot reaches up to 19 percent
score_edge_cleanliness_wide(img) ==
    LET d == img.edge_density
        score == IF 50 <= d /\ d <= 190 THEN 1000
                 ELSE IF d < 30 THEN 20 * d
                 ELSE IF d < 50 THEN 600 + (d - 30) * 20
                 ELSE Clamp(1000 - (d - 180) * 5, 0, 1000)
    IN  IF ~img.readable THEN Returned(0) ELSE Returned(Clamp(score, 0, 1000))

\* score_edge_cleanliness, in tenths: 0.0 when cv2.imread returns None
score_edge_cleanliness(img) ==
    LET d == img.edge_density
        score == IF 50 <= d /\ d <= 180 THEN 1000
                 ELSE IF d < 30 THEN 20 * d
                 ELSE IF d < 50 THEN 600 + (d - 30) * 20
                 ELSE Clamp(1000 - (d - 180) * 5, 0, 1000)
    IN  IF ~img.readable THEN Returned(0) ELSE Returned(Clamp(score, 0, 1000))

\* score_color_diversity, in tenths: Image.open raises on an unreadable file
score_color_diversity(img) ==
    IF ~img.readable THEN Raised
    ELSE Returned(Round(Clamp(4 * img.avg_entropy, 0, 3000), 3))

\* score_resolution, in tenths: Image.open raises on an unreadable file,
\* get_puzzle_spec raises on an unsupported piece count
score_resolution(img, target_pieces) ==
    IF ~img.readable \/ target_pieces \notin DOMAIN PUZZLE_SPECS THEN Raised
    ELSE LET target_w == PUZZLE_SPECS[target_pieces].print_width_px
             target_h == PUZZLE_SPECS[target_pieces].print_height_px
         IN  IF img.w >= target_w /\ img.h >= target_h THEN Returned(1000)
             ELSE IF img.w * target_h <= img.h * target_w
             THEN Returned(Round(1000 * img.w, target_w))
             ELSE Returned(Round(1000 * img.h, target_h))

\* assess_image_quality: the four active metrics in call order; the first
\* exception leaves the function (the legacy metrics are not modelled: they
\* run last, and score_contrast opens the file as score_color_diversity does)
assess_image_quality(img, target_pieces) ==
    LET cv == score_color_vibrancy(img)
        ec == score_edge_cleanliness(img)
        cd == score_color_diversity(img)
        rs == score_resolution(img, target_pieces)
    IN  [raised |-> cv.raised \/ ec.raised \/ cd.raised \/ rs.raised,
         color_vibrancy |-> cv.value, edge_cleanliness |-> ec.value,
         color_diversity |-> cd.value, resolution |-> rs.value]

-----------------------------------------------------------------------------
(* Face similarity: src/src/quality/face_similarity.py *)

\* _cosine_similarity of two embeddings, in 1e-5
Dot(a, b) ==
    IF a = b THEN 100000
    ELSE IF {a, b} = {"e1", "e2"} THEN 60000
    ELSE IF {a, b} = {"e1", "e3"} THEN 50004
    ELSE IF {a, b} = {"e1", "e4"} THEN 0 - 100000
    ELSE IF {a, b} = {"e1", "e5"} THEN 50000
    ELSE IF {a, b} = {"e1", "e6"} THEN 60001
    ELSE IF {a, b} = {"e1", "e7"} THEN 30001
    ELSE 30000

\* results.sort(key=score, reverse=True): stable, highest det_score first
RECURSIVE SortByScore(_)
SortByScore(faces) ==
    IF faces = <<>> THEN <<>>
    ELSE LET i == CHOOSE i \in 1..Len(faces) :
                     /\ \A j \in 1..Len(faces) : faces[j].score <= faces[i].score
                     /\ \A j \in 1..(i - 1) : faces[j].score < faces[i].score
         IN  <<faces[i]>> \o SortByScore(SubSeq(faces, 1, i - 1)
                                         \o SubSeq(faces, i + 1, Len(faces)))

\* the mutant: the faces are left in the detector's order
_detect_faces_unsorted(img, app_ok) ==
    IF ~img.readable THEN [raised |-> FALSE, faces |-> <<>>]
    ELSE IF ~app_ok THEN [raised |-> TRUE, faces |-> <<>>]
    ELSE [raised |-> FALSE, faces |-> img.faces]

\* _detect_faces: [] for an unreadable file; otherwise _get_face_app, which
\* raises when the model cannot be loaded, then the faces sorted
_detect_faces(img, app_ok) ==
    IF ~img.readable THEN [raised |-> FALSE, faces |-> <<>>]
    ELSE IF ~app_ok THEN [raised |-> TRUE, faces |-> <<>>]
    ELSE [raised |-> FALSE, faces |-> SortByScore(img.faces)]

\* round(x, 4) of a value in 1e-5, in 1e-4; x may be negative
Round4(x) == IF x >= 0 THEN Round(x, 10) ELSE 0 - Round(0 - x, 10)

\* the confidence level of a raw similarity in 1e-5
ConfidenceLevel(similarity) ==
    IF similarity > 60000 THEN "high"
    ELSE IF similarity > 50000 THEN "likely"
    ELSE IF similarity > 30000 THEN "uncertain"
    ELSE "different_person"

\* the mutant: the no-face result gets its flag and level like any other
\* result, from the similarity 0.0
score_face_similarity_unflagged(source, generated, app_ok) ==
    LET s == _detect_faces(source, app_ok)
        g == _detect_faces(generated, app_ok)
        similarity == Dot(s.faces[1].emb, g.faces[1].emb)
    IN  IF s.raised \/ g.raised
        THEN [raised |-> TRUE, similarity |-> 0, has_det |-> FALSE,
              generated_det_score |-> 0, threshold_flag |-> FALSE,
              confidence_level |-> "", source_detected |-> 0, generated_detected |-> 0,
              compared |-> FALSE]
        ELSE IF s.faces = <<>> \/ g.faces = <<>>
        THEN [raised |-> FALSE, similarity |-> 0, has_det |-> FALSE,
              generated_det_score |-> 0, threshold_flag |-> (0 < 0),
              confidence_level |-> ConfidenceLevel(0),
              source_detected |-> Len(s.faces), generated_detected |-> Len(g.faces),
              compared |-> FALSE]
        ELSE [raised |-> FALSE, similarity |-> Round4(similarity), has_det |-> TRUE,
              generated_det_score |-> Round4(g.faces[1].score),
              threshold_flag |-> (similarity < 50000),
              confidence_level |-> ConfidenceLevel(similarity),
              source_detected |-> Len(s.faces), generated_detected |-> Len(g.faces),
              compared |-> TRUE]

\* score_face_similarity: has_det tells whether the dict has the key
\* generated_det_score; similarity and generated_det_score are in 1e-4;
\* compared tells whether _cosine_similarity was called
score_face_similarity(source, generated, app_ok) ==
    LET s == _detect_faces(source, app_ok)
        g == _detect_faces(generated, app_ok)
        similarity == Dot(s.faces[1].emb, g.faces[1].emb)
    IN  IF s.raised \/ g.raised
        THEN [raised |-> TRUE, similarity |-> 0, has_det |-> FALSE,
              generated_det_score |-> 0, threshold_flag |-> FALSE,
              confidence_level |-> "", source_detected |-> 0, generated_detected |-> 0,
              compared |-> FALSE]
        ELSE IF s.faces = <<>> \/ g.faces = <<>>
        THEN [raised |-> FALSE, similarity |-> 0, has_det |-> FALSE,
              generated_det_score |-> 0, threshold_flag |-> TRUE,
              confidence_level |-> "no_face_detected",
              source_detected |-> Len(s.faces), generated_detected |-> Len(g.faces),
              compared |-> FALSE]
        ELSE [raised |-> FALSE, similarity |-> Round4(similarity), has_det |-> TRUE,
              generated_det_score |-> Round4(g.faces[1].score),
              threshold_flag |-> (similarity < 50000),
              confidence_level |-> ConfidenceLevel(similarity),
              source_detected |-> Len(s.faces), generated_detected |-> Len(g.faces),
              compared |-> TRUE]

-----------------------------------------------------------------------------
(* The lazily loaded detection model: _app and _get_face_app,              *)
(* src/src/quality/face_similarity.py lines 19-33.  The callers are        *)
(* threads: web/app.py hands _process_job to BackgroundTasks (line 184),   *)
(* which runs a plain def in a thread pool, and _process_job reaches       *)
(* _detect_faces through fulfill_order and assess_quality.  A thread can   *)
(* be suspended between any two of the steps below.                        *)

Threads == 1..MaxThreads

\* what a finished call handed back: raised, or the instance returned and
\* whether its prepare had completed at that moment
NoResult == [raised |-> FALSE, handle |-> 0, prepared |-> FALSE]
RaisedResult == [raised |-> TRUE, handle |-> 0, prepared |-> FALSE]
HandleResult(h) == [raised |-> FALSE, handle |-> h, prepared |-> prepares[h] > 0]

\* line 26: if _app is None
TestNone(t) ==
    /\ tpc[t] = "idle"
    /\ calls[t] < MaxCalls
    /\ tpc' = [tpc EXCEPT ![t] = IF _app = 0 THEN "construct" ELSE "return"]
    /\ UNCHANGED <<_app, prepares, calls, got>>
    /\ UNCHANGED notApp

\* lines 27-31: _app = FaceAnalysis(...)
Construct(t) ==
    /\ tpc[t] = "construct"
    /\ prepares' = Append(prepares, 0)
    /\ _app' = Len(prepares) + 1
    /\ tpc' = [tpc EXCEPT ![t] = "prepare"]
    /\ UNCHANGED <<calls, got>>
    /\ UNCHANGED notApp

\* lines 27-31 raising (insightface missing, model files unavailable)
ConstructRaises(t) ==
    /\ tpc[t] = "construct"
    /\ tpc' = [tpc EXCEPT ![t] = "idle"]
    /\ calls' = [calls EXCEPT ![t] = @ + 1]
    /\ got' = [got EXCEPT ![t] = RaisedResult]
    /\ UNCHANGED <<_app, prepares>>
    /\ UNCHANGED notApp

\* line 32: _app.prepare(...), on the instance the global names now
Prepare(t) ==
    /\ tpc[t] = "prepare"
    /\ prepares' = [prepares EXCEPT ![_app] = @ + 1]
    /\ tpc' = [tpc EXCEPT ![t] = "return"]
    /\ UNCHANGED <<_app, calls, got>>
    /\ UNCHANGED notApp

\* line 32 raising: _app keeps the instance
PrepareRaises(t) ==
    /\ tpc[t] = "prepare"
    /\ tpc' = [tpc EXCEPT ![t] = "idle"]
    /\ calls' = [calls EXCEPT ![t] = @ + 1]
    /\ got' = [got EXCEPT ![t] = RaisedResult]
    /\ UNCHANGED <<_app, prepares>>
    /\ UNCHANGED notApp

\* line 33: return _app
Return(t) ==
    /\ tpc[t] = "return"
    /\ tpc' = [tpc EXCEPT ![t] = "idle"]
    /\ calls' = [calls EXCEPT ![t] = @ + 1]
    /\ got' = [got EXCEPT ![t] = HandleResult(_app)]
    /\ UNCHANGED <<_app, prepares>>
    /\ UNCHANGED notApp

_get_face_app(t) ==
    \/ TestNone(t)
    \/ Construct(t)
    \/ ConstructRaises(t)
    \/ Prepare(t)
    \/ PrepareRaises(t)
    \/ Return(t)

-----------------------------------------------------------------------------
(* Composite scorer: src/src/quality/__init__.py *)

\* WEIGHTS, in hundredths
\* WEIGHTS, in hundredths
WEIGHTS ==
    [face_similarity |-> 15, color_vibrancy |-> 25, face_detection_confidence |-> 10,
     resolution |-> 10, edge_cleanliness |-> 20, color_diversity |-> 20]

\* the pass threshold of `composite >= 70`, in points
PassThreshold == 70

\* face_score = max(0, min(100, (raw_sim + 1) * 50)), in 1e-3 points, of a
\* similarity in 1e-4
FaceScore(raw_sim) == Clamp((raw_sim + 10000) * 5, 0, 100000)

\* face_det_score = generated_det_score * 100, in 1e-3 points
FaceDetScore(det_score) == det_score * 10

\* lines 55-68: face_score and face_det_score, in 1e-3 points
FaceSignals(source_given, face_data) ==
    IF ~source_given
    THEN [face_score |-> 0, face_det_score |-> 0]
    ELSE [face_score |-> FaceScore(face_data.similarity),
          face_det_score |-> IF face_data.has_det
                             THEN FaceDetScore(face_data.generated_det_score) ELSE 0]

\* the mutant: color diversity weighted with the weight of color vibrancy
CompositeWrongWeight(face, iq) ==
    WEIGHTS.face_similarity * face.face_score
    + WEIGHTS.color_vibrancy * (100 * iq.color_vibrancy)
    + WEIGHTS.face_detection_confidence * face.face_det_score
    + WEIGHTS.resolution * (100 * iq.resolution)
    + WEIGHTS.edge_cleanliness * (100 * iq.edge_cleanliness)
    + WEIGHTS.color_vibrancy * (100 * iq.color_diversity)

\* the mutant: color diversity counts against the candidate
CompositeMinusDiversity(face, iq) ==
    WEIGHTS.face_similarity * face.face_score
    + WEIGHTS.color_vibrancy * (100 * iq.color_vibrancy)
    + WEIGHTS.face_detection_confidence * face.face_det_score
    + WEIGHTS.resolution * (100 * iq.resolution)
    + WEIGHTS.edge_cleanliness * (100 * iq.edge_cleanliness)
    + WEIGHTS.color_diversity * (100 * (1000 - iq.color_diversity))

\* lines 71-78: the weighted sum, in 1e-5 points (iq scores are in tenths)
Composite(face, iq) ==
    WEIGHTS.face_similarity * face.face_score
    + WEIGHTS.color_vibrancy * (100 * iq.color_vibrancy)
    + WEIGHTS.face_detection_confidence * face.face_det_score
    + WEIGHTS.resolution * (100 * iq.resolution)
    + WEIGHTS.edge_cleanliness * (100 * iq.edge_cleanliness)
    + WEIGHTS.color_diversity * (100 * iq.color_diversity)

\* Variant of QualityDict: the pass verdict compares the rounded composite_score.
QualityDictPassOnRounded(source_given, face_data, face, iq, composite) ==
    [raised |-> FALSE,
     composite_score |-> Round(composite, 10000),
     pass |-> (Round(composite, 10000) >= PassThreshold * 10),
     has_face_data |-> source_given,
     face_similarity_raw |-> IF source_given THEN face_data.similarity ELSE 0,
     face_similarity_score |-> Round(face.face_score, 100),
     face_confidence |-> IF source_given THEN face_data.confidence_level ELSE "",
     face_detection_confidence |-> Round(face.face_det_score, 100),
     color_vibrancy |-> iq.color_vibrancy,
     edge_cleanliness |-> iq.edge_cleanliness,
     color_diversity |-> iq.color_diversity,
     resolution |-> iq.resolution]

\* lines 80-92: the returned dict; composite_score and the scores in tenths
QualityDict(source_given, face_data, face, iq, composite) ==
    [raised |-> FALSE,
     composite_score |-> Round(composite, 10000),
     pass |-> (composite >= PassThreshold * 100000),
     has_face_data |-> source_given,
     face_similarity_raw |-> IF source_given THEN face_data.similarity ELSE 0,
     face_similarity_score |-> Round(face.face_score, 100),
     face_confidence |-> IF source_given THEN face_data.confidence_level ELSE "",
     face_detection_confidence |-> Round(face.face_det_score, 100),
     color_vibrancy |-> iq.color_vibrancy,
     edge_cleanliness |-> iq.edge_cleanliness,
     color_diversity |-> iq.color_diversity,
     resolution |-> iq.resolution]

\* what the caller sees when assess_quality raises
QualityRaised ==
    [raised |-> TRUE, composite_score |-> 0, pass |-> FALSE, has_face_data |-> FALSE,
     face_similarity_raw |-> 0, face_similarity_score |-> 0, face_confidence |-> "",
     face_detection_confidence |-> 0, color_vibrancy |-> 0, edge_cleanliness |-> 0,
     color_diversity |-> 0, resolution |-> 0]

\* assess_quality(generated_path, source_path, target_pieces); source_given is
\* `if source_path:`, app_ok whether the InsightFace model can be loaded
assess_quality(generated, source_given, source, target_pieces, app_ok) ==
    LET iq_scores == assess_image_quality(generated, target_pieces)
        face_data == score_face_similarity(source, generated, app_ok)
        face == FaceSignals(source_given, face_data)
    IN  IF iq_scores.raised THEN QualityRaised
        ELSE IF source_given /\ face_data.raised THEN QualityRaised
        ELSE QualityDict(source_given, face_data, face, iq_scores,
                         Composite(face, iq_scores))

-----------------------------------------------------------------------------
(* Inputs of the composite scorer *)

Face(score, emb) == [score |-> score, emb |-> emb]

Image(readable, sat, edge_density, avg_entropy, size, faces) ==
    [readable |-> readable, mean_sat |-> sat[1], high_sat_pct |-> sat[2],
     edge_density |-> edge_density, avg_entropy |-> avg_entropy,
     w |-> size[1], h |-> size[2], faces |-> faces]

\* <<mean_sat, high_sat_pct>>
SatProfiles == { <<0, 0>>, <<96, 30>>, <<255, 100>> }
EdgeDensities == { 20, 100, 190 }
Entropies == { 300, 750 }
Sizes == { <<1024, 1024>>, <<2976, 8400>>, <<6000, 8400>> }

GeneratedFaces ==
    { <<>>, <<Face(91234, "e1")>>, <<Face(87655, "e2")>>,
      <<Face(50000, "e2"), Face(99999, "e3")>>, <<Face(70000, "e4")>>,
      <<Face(88000, "e5")>>, <<Face(60000, "e8"), Face(97000, "e6")>>,
      <<Face(90000, "e7")>>, <<Face(100000, "e8")>> }

SourceFaces == { <<>>, <<Face(99000, "e1")>>, <<Face(40000, "e2"), Face(95000, "e1")>> }

Unreadable == Image(FALSE, <<0, 0>>, 0, 0, <<0, 0>>, <<>>)

\* edge densities around the pieces of score_edge_cleanliness, in tenths of
\* a percent
EdgeProbes == { 0, 29, 30, 31, 49, 50, 180, 181, 379, 380, 381, 1000 }

\* pixel sizes at and just under the print sizes of PUZZLE_SPECS
SizeProbes ==
    { <<4800, 6000>>, <<4797, 6000>>, <<4800, 5990>>, <<5998, 8400>>,
      <<6000, 8396>>, <<3000, 8400>>, <<7000, 9000>> }

GeneratedImages ==
    { Unreadable } \cup
    { Image(TRUE, sat, d, en, size, faces) :
         sat \in SatProfiles, d \in EdgeDensities, en \in Entropies,
         size \in Sizes, faces \in GeneratedFaces } \cup
    { Image(TRUE, <<96, 30>>, d, 750, <<6000, 8400>>, <<>>) : d \in EdgeProbes } \cup
    { Image(TRUE, <<96, 30>>, 100, 750, size, <<>>) : size \in SizeProbes }

SourceImages ==
    { Unreadable } \cup
    { Image(TRUE, <<96, 30>>, 100, 750, <<1024, 1024>>, faces) : faces \in SourceFaces }

QualityInputs ==
    [generated : GeneratedImages, source_given : BOOLEAN, source : SourceImages,
     target_pieces : {500, 1000}, app_ok : BOOLEAN]

\* One call of assess_quality on the drawn arguments.
AssessQuality ==
    /\ qpc = "input"
    /\ qout' = assess_quality(qin.generated, qin.source_given, qin.source,
                              qin.target_pieces, qin.app_ok)
    /\ qpc' = IF qout'.raised THEN "raised" ELSE "returned"
    /\ UNCHANGED qin
    /\ UNCHANGED notQual

-----------------------------------------------------------------------------
(* Benchmark report: src/src/benchmark_report.py.  A report is kept as the  *)
(* values its tables show, not as markdown text.  Units: composite,        *)
(* vibrancy, edge and seconds in tenths, raw face similarity in 1e-4, cost *)
(* in 1e-4 dollars.  An optional value is <<>> (absent) or <<v>>.          *)

RECURSIVE SumSeq(_)
SumSeq(s) == IF s = <<>> THEN 0 ELSE s[1] + SumSeq(Tail(s))

MinSeq(s) == CHOOSE x \in {s[i] : i \in 1..Len(s)} : \A j \in 1..Len(s) : x <= s[j]
MaxSeq(s) == CHOOSE x \in {s[i] : i \in 1..Len(s)} : \A j \in 1..Len(s) : x >= s[j]

\* round(n / d), half to even, n of either sign
RoundSigned(n, d) == IF n >= 0 THEN Round(n, d) ELSE 0 - Round(0 - n, d)

MapSeq(s, F(_)) == [i \in 1..Len(s) |-> F(s[i])]

\* record["quality"] as the report reads it
LoggedQuality(kind, composite_score, pass, face_similarity_raw, color_vibrancy, edge_cleanliness) ==
    [kind |-> kind, composite_score |-> composite_score, pass |-> pass,
     face_similarity_raw |-> face_similarity_raw,
     color_vibrancy |-> color_vibrancy, edge_cleanliness |-> edge_cleanliness]

NoQuality == LoggedQuality("absent", 0, FALSE, <<>>, 0, 0)
ErrorQuality == LoggedQuality("error", 0, FALSE, <<>>, 0, 0)

\* one line of a results.jsonl file: a RunRecord, a blank line, or a line
\* that is not JSON
LogLine(kind, status, photo, style, run_index, quality, elapsed, cost) ==
    [kind |-> kind, status |-> status, photo |-> photo, style |-> style,
     run_index |-> run_index, quality |-> quality,
     total_elapsed_seconds |-> elapsed, total_cost_estimate |-> cost]

MalformedLine == LogLine("malformed", "", "", "", 0, NoQuality, <<>>, <<>>)
BlankLine == LogLine("blank", "", "", "", 0, NoQuality, <<>>, <<>>)

\* load_results: blank lines are skipped, json.loads raises on a line that
\* is not JSON
load_results(lines) ==
    LET nonblank == SelectSeq(lines, LAMBDA l : l.kind # "blank")
    IN  IF \E i \in 1..Len(nonblank) : nonblank[i].kind = "malformed"
        THEN [raised |-> TRUE, results |-> <<>>]
        ELSE [raised |-> FALSE, results |-> nonblank]

\* A statistic as it is shown: a value, or the "not applicable" marker (None
\* in compute_stats, "n/a" in the comparison); raised tells that computing it
\* divided by zero.
Value(v) == [na |-> FALSE, raised |-> FALSE, value |-> v]
NotApplicable == [na |-> TRUE, raised |-> FALSE, value |-> 0]
ZeroDivision == [na |-> FALSE, raised |-> TRUE, value |-> 0]

\* sum(values) / len(values), rounded to a multiple of d
Mean(values, d) ==
    IF Len(values) = 0 THEN ZeroDivision
    ELSE Value(RoundSigned(SumSeq(values), Len(values) * d))

\* the mutant: the mean without its guard
MeanUnguarded(values, d) == Mean(values, d)

\* f"{sum(xs)/len(xs)}" if xs else "n/a"
MeanOrNA(values, d) == IF values = <<>> THEN NotApplicable ELSE Mean(values, d)

\* compute_stats on values of which per_tenth make one tenth
compute_stats(values, per_tenth) ==
    IF values = <<>>
    THEN [mean |-> NotApplicable, min |-> NotApplicable, max |-> NotApplicable,
          count |-> 0]
    ELSE [mean |-> Mean(values, per_tenth),
          min |-> Value(RoundSigned(MinSeq(values), per_tenth)),
          max |-> Value(RoundSigned(MaxSeq(values), per_tenth)),
          count |-> Len(values)]

\* r.get("status") == "success" / "error"
Successful(results) == SelectSeq(results, LAMBDA r : r.status = "success")
Failed(results) == SelectSeq(results, LAMBDA r : r.status = "error")

\* q.get("composite_score") is not None, and the other fields of the dict
\* assess_quality returns
HasScore(r) == r.quality.kind = "scored"
HasFaceSim(r) == r.quality.kind = "scored" /\ r.quality.face_similarity_raw # <<>>

Composites(rs) == MapSeq(SelectSeq(rs, HasScore), LAMBDA r : r.quality.composite_score)
FaceSims(rs) == MapSeq(SelectSeq(rs, HasFaceSim), LAMBDA r : r.quality.face_similarity_raw[1])
Vibrancies(rs) == MapSeq(SelectSeq(rs, HasScore), LAMBDA r : r.quality.color_vibrancy)
EdgeScores(rs) == MapSeq(SelectSeq(rs, HasScore), LAMBDA r : r.quality.edge_cleanliness)
Times(rs) ==
    MapSeq(SelectSeq(rs, LAMBDA r : r.total_elapsed_seconds # <<>>),
           LAMBDA r : r.total_elapsed_seconds[1])
Costs(rs) ==
    MapSeq(SelectSeq(rs, LAMBDA r : r.total_cost_estimate # <<>>),
           LAMBDA r : r.total_cost_estimate[1])

\* sum(1 for c in composites if c >= 70) / len(composites) * 100, shown :.0f
PassRate(composites) ==
    IF Len(composites) = 0 THEN ZeroDivision
    ELSE Value(Round(100 * Len(SelectSeq(composites, LAMBDA c : c >= 10 * PassThreshold)),
                     Len(composites)))

\* a row of the summary table: left out when the list is empty
StatsRow(values, per_tenth) ==
    IF values = <<>> THEN <<>> ELSE <<compute_stats(values, per_tenth)>>

\* the Cost/run row: avg shown :.3f (in 1e-3 dollars), total :.2f (in cents)
CostRow(costs) ==
    IF costs = <<>> THEN <<>>
    ELSE <<[avg |-> Mean(costs, 10), total |-> Round(SumSeq(costs), 100)]>>

NoSummary(label) ==
    [label |-> label, none_successful |-> TRUE, ok |-> 0, failed |-> 0,
     composite |-> <<>>, pass_rate |-> <<>>, face_similarity |-> <<>>,
     color_vibrancy |-> <<>>, edge_cleanliness |-> <<>>, time |-> <<>>,
     cost |-> <<>>]

\* the mutant: the metrics are collected from every record
generate_summary_table_all_records(results, label) ==
    IF Successful(results) = <<>> THEN NoSummary(label)
    ELSE [label |-> label, none_successful |-> FALSE,
          ok |-> Len(Successful(results)), failed |-> Len(Failed(results)),
          composite |-> StatsRow(Composites(results), 1),
          pass_rate |-> IF Composites(results) = <<>> THEN <<>>
                        ELSE <<PassRate(Composites(results))>>,
          face_similarity |-> StatsRow(FaceSims(results), 1000),
          color_vibrancy |-> StatsRow(Vibrancies(results), 1),
          edge_cleanliness |-> StatsRow(EdgeScores(results), 1),
          time |-> StatsRow(Times(results), 1),
          cost |-> CostRow(Costs(results))]

generate_summary_table(results, label) ==
    LET successful == Successful(results)
    IN  IF successful = <<>> THEN NoSummary(label)
        ELSE [label |-> label, none_successful |-> FALSE,
              ok |-> Len(successful), failed |-> Len(Failed(results)),
              composite |-> StatsRow(Composites(successful), 1),
              pass_rate |-> IF Composites(successful) = <<>> THEN <<>>
                            ELSE <<PassRate(Composites(successful))>>,
              face_similarity |-> StatsRow(FaceSims(successful), 1000),
              color_vibrancy |-> StatsRow(Vibrancies(successful), 1),
              edge_cleanliness |-> StatsRow(EdgeScores(successful), 1),
              time |-> StatsRow(Times(successful), 1),
              cost |-> CostRow(Costs(successful))]

\* the mutant: the last of the maximal records
BestByCompositeLast(scored) ==
    LET i == CHOOSE i \in 1..Len(scored) :
                 /\ \A j \in 1..Len(scored) :
                       scored[j].quality.composite_score <= scored[i].quality.composite_score
                 /\ \A j \in (i + 1)..Len(scored) :
                       scored[j].quality.composite_score < scored[i].quality.composite_score
    IN  scored[i]

\* max(scored, key=composite_score): the first of the maximal records
BestByComposite(scored) ==
    LET i == CHOOSE i \in 1..Len(scored) :
                 /\ \A j \in 1..Len(scored) :
                       scored[j].quality.composite_score <= scored[i].quality.composite_score
                 /\ \A j \in 1..(i - 1) :
                       scored[j].quality.composite_score < scored[i].quality.composite_score
    IN  scored[i]

\* one row of the per-photo table, with the record it was printed from
PhotoRow(best) ==
    [photo |-> best.photo, composite |-> best.quality.composite_score,
     face_sim |-> IF best.quality.face_similarity_raw = <<>> THEN <<>>
                  ELSE <<RoundSigned(best.quality.face_similarity_raw[1], 100)>>,
     passed |-> best.quality.pass, best |-> best]

\* generate_per_photo_table: header is FALSE when "" is returned; the rows
\* follow sorted(by_photo.keys()), which is the order of AllPhotos
generate_per_photo_table(results, label) ==
    LET successful == SelectSeq(results, LAMBDA r : r.status = "success" /\ r.quality.kind # "absent")
        ScoredOf(p) == SelectSeq(successful, LAMBDA r : r.photo = p /\ HasScore(r))
        photos == SelectSeq(AllPhotos, LAMBDA p : ScoredOf(p) # <<>>)
    IN  [label |-> label, header |-> successful # <<>>,
         rows |-> MapSeq(photos, LAMBDA p : PhotoRow(BestByComposite(ScoredOf(p))))]

\* one column of the side-by-side table; a missing cost or time counts as 0
\* (r.get(key, 0)); composite :.1f, face :.2f, cost :.3f, time :.1f
ComparisonColumn(label, results) ==
    LET successful == Successful(results)
        composites == Composites(successful)
        sims == FaceSims(successful)
        costs == MapSeq(successful, LAMBDA r : IF r.total_cost_estimate = <<>> THEN 0
                                               ELSE r.total_cost_estimate[1])
        times == MapSeq(successful, LAMBDA r : IF r.total_elapsed_seconds = <<>> THEN 0
                                               ELSE r.total_elapsed_seconds[1])
    IN  [label |-> label,
         composite |-> MeanOrNA(composites, 1),
         face_similarity |-> MeanOrNA(sims, 100),
         pass_rate |-> IF composites = <<>> THEN NotApplicable ELSE PassRate(composites),
         cost |-> MeanOrNA(costs, 10),
         time |-> MeanOrNA(times, 1)]

\* generate_comparison: "" for fewer than two run sets
generate_comparison(labels, all_results) ==
    IF Len(labels) < 2 THEN <<>>
    ELSE [i \in 1..Len(labels) |-> ComparisonColumn(labels[i], all_results[i])]

\* what write_text leaves in the output file: markdown, no line of it JSON
ReportText == <<MalformedLine, BlankLine, MalformedLine>>

NoReport == [summaries |-> <<>>, per_photo |-> <<>>, comparison |-> <<>>]

\* an exception left one of the table generators
SummaryRaised(sm) ==
    \/ \E row \in {sm.composite, sm.face_similarity, sm.color_vibrancy,
                    sm.edge_cleanliness, sm.time} :
          row # <<>> /\ row[1].mean.raised
    \/ sm.pass_rate # <<>> /\ sm.pass_rate[1].raised
    \/ sm.cost # <<>> /\ sm.cost[1].avg.raised

ComparisonRaised(cmp) ==
    \E i \in 1..Len(cmp) :
       \E x \in {cmp[i].composite, cmp[i].face_similarity, cmp[i].pass_rate,
                  cmp[i].cost, cmp[i].time} : x.raised

\* main from line 276 on: load every file, build the report, write or print
\* it.  The result is the report, whether main raised, and the files after.
main(fs, args) ==
    LET n == Len(args.results)
        loaded == [i \in 1..n |-> load_results(fs[args.results[i]].lines)]
        labels == [i \in 1..n |-> fs[args.results[i]].label]
        all_results == [i \in 1..n |-> loaded[i].results]
        report == [summaries |-> [i \in 1..n |->
                                generate_summary_table(all_results[i], labels[i])],
                   per_photo |-> [i \in 1..n |->
                                generate_per_photo_table(all_results[i], labels[i])],
                   comparison |-> generate_comparison(labels, all_results)]
    IN  IF \/ \E i \in 1..n : loaded[i].raised
           \/ \E i \in 1..n : SummaryRaised(report.summaries[i])
           \/ ComparisonRaised(report.comparison)
        THEN [raised |-> TRUE, report |-> NoReport, files |-> fs]
        ELSE [raised |-> FALSE, report |-> report,
              files |-> IF args.output = <<>> THEN fs
                        ELSE [fs EXCEPT ![args.output[1]].lines = ReportText]]

\* One run of the report on the files as they are now.
Report ==
    /\ rpc \in {"input", "ran"}
    /\ Len(reports) < 2
    /\ LET o == main(files, rargs)
       IN  /\ reports' = Append(reports, [raised |-> o.raised, report |-> o.report])
           /\ files' = o.files
    /\ rpc' = "ran"
    /\ UNCHANGED rargs
    /\ UNCHANGED notReport

-----------------------------------------------------------------------------
(* Inputs of the report *)

ScoredRecord(photo, style, run_index, composite_score, pass, face_sim, vibrancy, edge, elapsed, cost) ==
    LogLine("record", "success", photo, style, run_index,
            LoggedQuality("scored", composite_score, pass, face_sim, vibrancy, edge),
            <<elapsed>>, <<cost>>)

LinePool ==
    { MalformedLine,
      ScoredRecord(AllPhotos[1], "storybook_cartoon", 1, 820, TRUE, <<6200>>, 905, 950, 187, 400),
      ScoredRecord(AllPhotos[1], "animation_village", 0, 820, TRUE, <<>>, 881, 1000, 305, 400),
      ScoredRecord(AllPhotos[2], "storybook_cartoon", 0, 750, TRUE, <<4150>>, 700, 800, 120, 650),
      ScoredRecord(AllPhotos[2], "storybook_cartoon", 1, 620, FALSE, <<2875>>, 511, 640, 98, 650),
      ScoredRecord(AllPhotos[2], "animation_village", 0, 700, FALSE, <<5000>>, 655, 775, 151, 400),
      LogLine("record", "error", AllPhotos[1], "storybook_cartoon", 0, NoQuality, <<33>>, <<>>),
      LogLine("record", "success", AllPhotos[1], "storybook_cartoon", 0, ErrorQuality, <<77>>, <<400>>),
      LogLine("record", "success", AllPhotos[2], "storybook_cartoon", 1, NoQuality, <<>>, <<>>) }

LogsUpTo(n) == UNION { [1..k -> LinePool] : k \in 0..n }

\* the second run set, when two are compared
OtherLogs ==
    { <<ScoredRecord(AllPhotos[1], "storybook_cartoon", 0, 705, TRUE, <<6100>>, 800, 900, 200, 400)>> }

ReportPaths == <<"runA/results.jsonl", "runB/results.jsonl", "report.md">>

\* the label of a results file is its directory name (no config.json label)
LabelOf(path) ==
    IF path = ReportPaths[1] THEN "runA" ELSE IF path = ReportPaths[2] THEN "runB" ELSE ""

File(path, lines) == [label |-> LabelOf(path), lines |-> lines]

ReportArgs ==
    [results : { <<ReportPaths[1]>>, <<ReportPaths[1], ReportPaths[2]>> },
     output : { <<>>, <<ReportPaths[3]>>, <<ReportPaths[1]>> }]

-----------------------------------------------------------------------------
(* Web jobs: src/web/app.py, src/web/jobs.py and the steps of              *)
(* src/src/fulfill_order.py that _process_job waits for                    *)

JobIds == 1..MaxJobs

\* fulfill_order line 54: total_steps = 7
total_steps == 7

\* the uploaded photo as step 1 of fulfill_order sees it: at least 256x256,
\* smaller on one side, or not an image
Photos == {"ok", "small", "unreadable"}

\* no row of the jobs table
NoJob == [status |-> "none", current_step |-> 0, photo |-> ""]

\* jobs.update_job(job_id, status=...): one UPDATE of the row
update_job(j, status) == [jobs EXCEPT ![j].status = status]

\* upload (lines 150-186): create_job inserts the row with the default status
\* 'pending', then background_tasks.add_task(_process_job, job_id)
Upload(j, photo) ==
    /\ jobs[j].status = "none"
    /\ jobs' = [jobs EXCEPT ![j] = [status |-> "pending", current_step |-> 0,
                                     photo |-> photo]]
    /\ task' = [task EXCEPT ![j] = "queued"]
    /\ UNCHANGED notJobs

\* _process_job lines 65-69: the row exists, update_job(status="processing")
StartProcessing(j) ==
    /\ task[j] = "queued"
    /\ jobs' = update_job(j, "processing")
    /\ task' = [task EXCEPT ![j] = "running"]
    /\ UNCHANGED notJobs

\* fulfill_order reaches its next step: _progress(step, label) calls
\* on_progress (lines 74-80), which writes the step into the row.  Step 1
\* is left for step 2 only with a photo of at least 256x256.
Progress(j) ==
    /\ task[j] = "running"
    /\ jobs[j].current_step < total_steps
    /\ jobs[j].current_step >= 1 => jobs[j].photo = "ok"
    /\ jobs' = [jobs EXCEPT ![j].current_step = @ + 1]
    /\ UNCHANGED task
    /\ UNCHANGED notJobs

\* fulfill_order line 93: sys.exit(1) on a photo smaller than 256x256.  It
\* raises SystemExit, which is not an Exception: the except clause of line
\* 117 does not catch it and _process_job is left without a status update.
PhotoTooSmall(j) ==
    /\ task[j] = "running"
    /\ jobs[j].current_step = 1
    /\ jobs[j].photo = "small"
    /\ task' = [task EXCEPT ![j] = "exited"]
    /\ UNCHANGED jobs
    /\ UNCHANGED notJobs

\* the step at hand raises an Exception (Image.open on a file that is not an
\* image, a backend or network error, ...): lines 117-118 set status 'error'
StepRaises(j) ==
    /\ task[j] = "running"
    /\ \/ jobs[j].photo = "unreadable" /\ jobs[j].current_step = 1
       \/ jobs[j].photo = "ok" /\ jobs[j].current_step >= 2
    /\ jobs' = update_job(j, "error")
    /\ task' = [task EXCEPT ![j] = "ended"]
    /\ UNCHANGED notJobs

\* fulfill_order returns the manifest after its last step: lines 108-115 set
\* status 'completed'
Completes(j) ==
    /\ task[j] = "running"
    /\ jobs[j].current_step = total_steps
    /\ jobs' = update_job(j, "completed")
    /\ task' = [task EXCEPT ![j] = "ended"]
    /\ UNCHANGED notJobs

\* _process_job(job_id), the background task of one job
_process_job(j) ==
    \/ StartProcessing(j)
    \/ Progress(j)
    \/ PhotoTooSmall(j)
    \/ StepRaises(j)
    \/ Completes(j)

-----------------------------------------------------------------------------
(* Specifications *)

BatchInit ==
    /\ pc \in {"cli", "call"}
    /\ cfg \in Configs
    /\ unit = <<1, 1, 1>>
    /\ run_idx = 0
    /\ run_records = <<>>
    /\ log = <<>>
    /\ completed = 0
    /\ errors = 0
    /\ best_results = <<>>
    /\ started = 0
    /\ generateCalls = 0
    /\ gen_kwargs = <<>>
    /\ saved = <<>>

\* no batch is run
BatchIdle ==
    /\ pc = "idle"
    /\ cfg = <<>>
    /\ unit = <<1, 1, 1>>
    /\ run_idx = 0
    /\ run_records = <<>>
    /\ log = <<>>
    /\ completed = 0
    /\ errors = 0
    /\ best_results = <<>>
    /\ started = 0
    /\ generateCalls = 0
    /\ gen_kwargs = <<>>
    /\ saved = <<>>

QualityInit ==
    /\ qpc = "input"
    /\ qin \in QualityInputs
    /\ qout = QualityRaised

\* assess_quality is not called
QualityIdle ==
    /\ qpc = "idle"
    /\ qin = <<>>
    /\ qout = <<>>

\* face_similarity.py line 20: _app = None
FaceAppInit ==
    /\ _app = 0
    /\ tpc = [t \in Threads |-> "idle"]
    /\ prepares = <<>>
    /\ calls = [t \in Threads |-> 0]
    /\ got = [t \in Threads |-> NoResult]

\* jobs.init_db: an empty jobs table, no background task
JobsInit ==
    /\ jobs = [j \in JobIds |-> NoJob]
    /\ task = [j \in JobIds |-> "none"]

\* the report is not run
ReportIdle ==
    /\ rpc = "idle"
    /\ files = <<>>
    /\ rargs = <<>>
    /\ reports = <<>>

ReportInit ==
    /\ rpc = "input"
    /\ rargs \in ReportArgs
    /\ \E a \in LogsUpTo(MaxLines), b \in OtherLogs :
          /\ files = [p \in {ReportPaths[i] : i \in 1..3} |->
                        IF p = ReportPaths[1] THEN File(p, a)
                        ELSE IF p = ReportPaths[2] THEN File(p, b)
                        ELSE File(p, <<>>)]
    /\ reports = <<>>

Init == BatchInit /\ QualityIdle /\ FaceAppInit /\ ReportIdle /\ JobsInit

Next ==
    \/ ParseArgs
    \/ StartBatch
    \/ RunAttempt

Spec == Init /\ [][Next]_vars

InitQuality == BatchIdle /\ QualityInit /\ FaceAppInit /\ ReportIdle /\ JobsInit

NextQuality == AssessQuality

SpecQuality == InitQuality /\ [][NextQuality]_vars

InitFaceApp == BatchIdle /\ QualityIdle /\ FaceAppInit /\ ReportIdle /\ JobsInit

NextFaceApp == \E t \in Threads : _get_face_app(t)

SpecFaceApp == InitFaceApp /\ [][NextFaceApp]_vars

InitReport == BatchIdle /\ QualityIdle /\ FaceAppInit /\ ReportInit /\ JobsInit

NextReport == Report

SpecReport == InitReport /\ [][NextReport]_vars

InitJobs == BatchIdle /\ QualityIdle /\ FaceAppInit /\ ReportIdle /\ JobsInit

NextJobs ==
    \/ \E j \in JobIds, photo \in Photos : Upload(j, photo)
    \/ \E j \in JobIds : _process_job(j)

SpecJobs == InitJobs /\ [][NextJobs]_vars

\* the thread pool keeps running a background task it has started, and
\* starts every task that was added
SpecJobsFair == SpecJobs /\ \A j \in JobIds : WF_vars(_process_job(j))


-----------------------------------------------------------------------------
(* Properties of the benchmark runner, checked under Spec *)

SameUnit(r, q) == r.backend = q.backend /\ r.photo = q.photo /\ r.style = q.style

\* the log lines of the unit of r
UnitLines(r) == { i \in 1..Len(log) : SameUnit(log[i], r) }

\* all best_of attempts of the unit of r are in the log
UnitFinished(r) == Cardinality(UnitLines(r)) = cfg.best_of

\* the position of the loops after the attempt at <<unit, run_idx>> has ended
MovedOn ==
    IF run_idx + 1 < cfg.best_of
    THEN pc' = "running" /\ unit' = unit /\ run_idx' = run_idx + 1
    ELSE IF NextUnit(unit, cfg) # <<>>
    THEN pc' = "running" /\ unit' = NextUnit(unit, cfg) /\ run_idx' = 0
    ELSE pc' = "done"

\* the collaborators' outcomes e with which the attempt enters its try block
EntersTry(e) ==
    /\ StyleKnown(cfg.styles[unit[3]])
    /\ ~(cfg.do_preprocess /\ e.pre = "raise")

\* the outcomes the collaborators may have in the attempt at <<unit, run_idx>>
EnvNow ==
    IF pc = "running"
    THEN EnvFor(cfg.styles[unit[3]], cfg.do_face_swap, cfg.do_quality, cfg.do_preprocess)
    ELSE {}

GenerationFails(e) == e.gen = "error" \/ e.dl \in {"error", "timeout"}
ScoringFails(e) == ~GenerationFails(e) /\ cfg.do_quality /\ e.qual.raised

\* C1: every record in best_results is a log record of its unit with status
\* success and a present composite score, no successful scored record of that
\* unit has a larger composite score, and among those with the same score it
\* has the lowest run_index; best_results holds at most one record per unit,
\* only with best_of > 1 and quality on, and one for every finished unit that
\* has a successful scored record.
C1_BestOfSelection ==
    /\ \A k \in 1..Len(best_results) :
          LET b == best_results[k]
          IN  /\ cfg.best_of > 1 /\ cfg.do_quality
              /\ \E i \in 1..Len(log) : log[i] = b
              /\ b.status = "success" /\ b.quality.kind = "scored"
              /\ \A i \in UnitLines(b) :
                    (log[i].status = "success" /\ log[i].quality.kind = "scored")
                    => /\ log[i].quality.composite_score <= b.quality.composite_score
                       /\ (log[i].quality.composite_score = b.quality.composite_score
                              => b.run_index <= log[i].run_index)
              /\ \A j \in 1..Len(best_results) : SameUnit(best_results[j], b) => j = k
    /\ (cfg.best_of > 1 /\ cfg.do_quality) =>
          \A i \in 1..Len(log) :
             (UnitFinished(log[i]) /\ log[i].status = "success"
                 /\ log[i].quality.kind = "scored")
             => \E k \in 1..Len(best_results) : SameUnit(best_results[k], log[i])

\* a unit scored 55, 82, 82, 40 at run indices 0..3 whose selected record is run 1
C1_Witness ==
    /\ Len(log) = 4
    /\ \A i \in 1..4 : /\ log[i].status = "success" /\ log[i].quality.kind = "scored"
                       /\ log[i].run_index = i - 1
    /\ log[1].quality.composite_score = 55
    /\ log[2].quality.composite_score = 82
    /\ log[3].quality.composite_score = 82
    /\ log[4].quality.composite_score = 40
    /\ best_results = <<log[2]>>

\* C3: an attempt whose generation, download (also on timeout) or quality
\* scoring fails appends exactly one line to the log, leaving the earlier lines
\* as they were: an error record naming the error for a generation or download
\* failure, a record whose quality entry is the error for a scoring failure;
\* the batch does not end in an exception and moves to the next attempt of the
\* unit, or to the next unit, or ends after the last one.
C3_FailureStep ==
    \A e \in EnvNow :
       (EntersTry(e) /\ (GenerationFails(e) \/ ScoringFails(e)) /\ RunAttemptWith(e))
       => /\ Len(log') = Len(log) + 1
          /\ SubSeq(log', 1, Len(log)) = log
          /\ LET rec == log'[Len(log')]
             IN  /\ rec.backend = cfg.backends[unit[1]]
                 /\ rec.photo = cfg.photos[unit[2]]
                 /\ rec.style = cfg.styles[unit[3]]
                 /\ rec.run_index = run_idx
                 /\ GenerationFails(e) => (rec.status = "error" /\ rec.error # "")
                 /\ ScoringFails(e) => (rec.status = "success" /\ rec.quality.kind = "error")
          /\ pc' # "raised"
          /\ MovedOn

C3_FailuresDowngraded == [][C3_FailureStep]_vars

\* a timed-out download followed by a later attempt of the same unit whose
\* scoring failed, followed by an attempt of a later unit
C3_Witness ==
    \E i, j, k \in 1..Len(log) :
       /\ i < j /\ j < k
       /\ log[i].status = "error" /\ log[i].error = "download timed out"
       /\ SameUnit(log[j], log[i]) /\ log[j].quality.kind = "error"
       /\ ~SameUnit(log[k], log[i])

\* C4: every attempt started has produced exactly one log line, and the number
\* of log lines equals completed + errors, whichever of preprocess, face swap
\* and quality is on.
C4_OneRecordPerAttempt ==
    /\ started = Len(log)
    /\ Len(log) = completed + errors

\* C5: a batch with best_of > 1 and quality scoring off makes no
\* backend.generate call and appends no record.
C5_BestOfNeedsQuality ==
    (cfg.best_of > 1 /\ ~cfg.do_quality) => (generateCalls = 0 /\ log = <<>>)

\* C6: a batch whose configuration names an unknown backend or style makes no
\* backend.generate call and appends no record.
C6_UnknownIdFailsFast ==
    (\/ \E i \in 1..Len(cfg.backends) : ~BackendKnown(cfg.backends[i])
     \/ \E i \in 1..Len(cfg.styles) : ~StyleKnown(cfg.styles[i]))
    => (generateCalls = 0 /\ log = <<>>)

\* C7: an attempt that failed to generate never enters the candidate pool
\* (run_records, best_results), is counted in errors and logged as an error
\* record, and the next attempt of the unit still runs; a unit whose attempts all
\* failed has no record in best_results; after the last attempt of such a unit
\* best_results is unchanged and the batch moves to the next unit or ends
\* normally.  "Reported as a failure" is read as: each of the unit's best_of
\* log lines is an error record and each is counted in errors.
C7_PoolState ==
    /\ \A k \in 1..Len(run_records) : run_records[k].status = "success"
    /\ \A k \in 1..Len(best_results) : best_results[k].status = "success"
    /\ errors = Cardinality({ i \in 1..Len(log) : log[i].status = "error" })
    /\ completed = Cardinality({ i \in 1..Len(log) : log[i].status = "success" })
    /\ \A i \in 1..Len(log) :
          (\A j \in UnitLines(log[i]) : log[j].status = "error")
          => \A k \in 1..Len(best_results) : ~SameUnit(best_results[k], log[i])

C7_FailedAttemptStep ==
    \A e \in EnvNow :
       (EntersTry(e) /\ GenerationFails(e) /\ RunAttemptWith(e))
       => /\ errors' = errors + 1
          /\ log'[Len(log')].status = "error"
          /\ run_records' = (IF run_idx = 0 THEN <<>> ELSE run_records)
          /\ MovedOn
          /\ (run_records' = <<>> => best_results' = best_results)

C7_FailedAttemptsLeftOut == [](C7_PoolState) /\ [][C7_FailedAttemptStep]_vars

\* a unit of two attempts that both failed, no winner for it, and the first
\* attempt of the next unit in the log
C7_Witness ==
    /\ cfg.best_of = 2 /\ cfg.do_quality
    /\ Len(log) = 3
    /\ log[1].status = "error" /\ log[2].status = "error"
    /\ SameUnit(log[1], log[2]) /\ ~SameUnit(log[3], log[1])
    /\ log[3].status = "success"
    /\ best_results = <<>>
    /\ errors = 2


-----------------------------------------------------------------------------
(* Properties of the composite scorer, checked under SpecQuality *)

\* the unrounded weighted composite of the call's arguments, in 1e-5 points
UnroundedComposite ==
    Composite(FaceSignals(qin.source_given,
                          score_face_similarity(qin.source, qin.generated, qin.app_ok)),
              assess_image_quality(qin.generated, qin.target_pieces))

\* C2: the pass verdict assess_quality returns is true exactly when the
\* unrounded weighted composite is at least 70 points, and the composite_score
\* it reports is that composite rounded to one decimal.
C2_PassOnUnrounded ==
    qpc = "returned" =>
       /\ qout.pass = (UnroundedComposite >= 7000000)
       /\ qout.composite_score = Round(UnroundedComposite, 10000)

\* an unrounded composite of 69.96 reported as 70.0 with pass = false
C2_Witness ==
    /\ qpc = "returned"
    /\ UnroundedComposite = 6996000
    /\ qout.composite_score = 700
    /\ qout.pass = FALSE

\* C8: when the source is given and no face is detected in the source or in
\* the candidate, the reported face similarity score is 0 and the composite is
\* the one the same call returns without a source.
C8_NoFaceContributesZero ==
    (qpc = "returned" /\ qin.source_given /\ qout.face_confidence = "no_face_detected")
    => /\ qout.face_similarity_score = 0
       /\ qout.composite_score =
             assess_quality(qin.generated, FALSE, qin.source, qin.target_pieces,
                            qin.app_ok).composite_score

\* C9: when the face model cannot be loaded and the call reaches face
\* detection (a source is given, the candidate is readable and its piece count
\* supported), score_face_similarity does not raise and assess_quality returns
\* the composite of the four image signals with both face signals at 0.
C9_DetectorUnavailable ==
    (qpc # "input" /\ ~qin.app_ok /\ qin.source_given /\ qin.generated.readable)
    => /\ ~score_face_similarity(qin.source, qin.generated, qin.app_ok).raised
       /\ qpc = "returned"
       /\ qout.composite_score =
             Round(Composite([face_score |-> 0, face_det_score |-> 0],
                             assess_image_quality(qin.generated, qin.target_pieces)),
                   10000)

\* C10: on an unreadable candidate file none of the four image-quality
\* extractors raises.
C10_ExtractorsDoNotRaise ==
    (qpc # "input" /\ ~qin.generated.readable)
    => /\ ~score_color_vibrancy(qin.generated).raised
       /\ ~score_edge_cleanliness(qin.generated).raised
       /\ ~score_color_diversity(qin.generated).raised
       /\ ~score_resolution(qin.generated, qin.target_pieces).raised

\* the two face signals and the four image signals of the call, as they enter
\* the weighted sum
FaceSignalsNow ==
    FaceSignals(qin.source_given,
                score_face_similarity(qin.source, qin.generated, qin.app_ok))
ImageSignalsNow == assess_image_quality(qin.generated, qin.target_pieces)

\* C17: each of the six signals that enter the composite of a returned
\* assessment lies in [0,100]: the two face signals (in 1e-3 points) and the
\* four image signals (in tenths).
C17_SignalsInRange ==
    qpc = "returned" =>
       /\ FaceSignalsNow.face_score \in 0..100000
       /\ FaceSignalsNow.face_det_score \in 0..100000
       /\ ImageSignalsNow.color_vibrancy \in 0..1000
       /\ ImageSignalsNow.edge_cleanliness \in 0..1000
       /\ ImageSignalsNow.color_diversity \in 0..1000
       /\ ImageSignalsNow.resolution \in 0..1000

\* a returned assessment of a candidate whose vibrancy blend exceeds 100 before
\* the clamp, with a face detected at confidence 1.0
C17_Witness ==
    /\ qpc = "returned"
    /\ 375 * qin.generated.mean_sat + 400 * qin.generated.high_sat_pct > 100000
    /\ qout.color_vibrancy = 1000
    /\ FaceSignalsNow.face_det_score = 100000

\* C18: the weights are 0.15, 0.25, 0.10, 0.10, 0.20, 0.20 and sum to 1.0; the
\* composite score of a returned assessment is the sum of weight x signal over
\* the six signals, rounded to one decimal, and lies in [0,100].
C18_WeightedSum ==
    /\ WEIGHTS = [face_similarity |-> 15, color_vibrancy |-> 25,
                  face_detection_confidence |-> 10, resolution |-> 10,
                  edge_cleanliness |-> 20, color_diversity |-> 20]
    /\ 15 + 25 + 10 + 10 + 20 + 20 = 100
    /\ qpc = "returned" =>
          /\ qout.composite_score
                = Round(15 * FaceSignalsNow.face_score
                        + 25 * 100 * ImageSignalsNow.color_vibrancy
                        + 10 * FaceSignalsNow.face_det_score
                        + 10 * 100 * ImageSignalsNow.resolution
                        + 20 * 100 * ImageSignalsNow.edge_cleanliness
                        + 20 * 100 * ImageSignalsNow.color_diversity, 10000)
          /\ qout.composite_score \in 0..1000

\* a returned assessment with five signals at 100 and the detection confidence
\* at 91.23: 90 + 0.10 x 91.23 = 99.123, reported as 99.1
C18_Witness ==
    /\ qpc = "returned"
    /\ FaceSignalsNow.face_score = 100000
    /\ FaceSignalsNow.face_det_score = 91230
    /\ ImageSignalsNow.color_vibrancy = 1000
    /\ ImageSignalsNow.edge_cleanliness = 1000
    /\ ImageSignalsNow.color_diversity = 1000
    /\ ImageSignalsNow.resolution = 1000
    /\ qout.composite_score = 991

\* the faces FaceAnalysis finds in an image file (none in an unreadable one)
FacesIn(img) == IF img.readable THEN img.faces ELSE <<>>

\* the result of the score_face_similarity call of this assessment
FaceDataNow == score_face_similarity(qin.source, qin.generated, qin.app_ok)

BestFaces(img) ==
    { img.faces[i] : i \in { i \in 1..Len(img.faces) :
                              \A j \in 1..Len(img.faces) :
                                 img.faces[j].score <= img.faces[i].score } }

-----------------------------------------------------------------------------
(* Properties of the detection-model handle, checked under SpecFaceApp *)

\* C11: whatever the interleaving of the calling threads, at most one
\* FaceAnalysis instance is ever constructed, no instance is prepared more than
\* once, and once _app names an instance it names that instance for good.
C11_InitializedOnce ==
    /\ Len(prepares) <= 1
    /\ \A h \in 1..Len(prepares) : prepares[h] <= 1
    /\ _app \in {0, 1}

-----------------------------------------------------------------------------
(* Properties of the benchmark report, checked under SpecReport *)

\* the RunRecords among the lines of a file
WellFormed(lines) == SelectSeq(lines, LAMBDA l : l.kind = "record")

\* the file main reads first, and the first run's outcome
FirstLog == files[rargs.results[1]].lines
FirstRun == reports[1]

\* C12: a run of the report on logs that may hold lines that are not JSON does
\* not fail, and its summary of a log counts every well-formed record of it
\* (successes and errors).  Stated for runs that print the report, so that the
\* files are the ones that were read.
C12_MalformedLineSkipped ==
    (Len(reports) >= 1 /\ rargs.output = <<>>)
    => /\ ~FirstRun.raised
       /\ LET sm == FirstRun.report.summaries[1]
              rs == WellFormed(FirstLog)
          IN  /\ sm.ok = Len(Successful(rs))
              /\ Successful(rs) # <<>> => sm.failed = Len(Failed(rs))

\* the first run printed its report and did not raise: the files are still the
\* ones it read
FirstRunPrinted == Len(reports) >= 1 /\ rargs.output = <<>> /\ ~FirstRun.raised

\* positions in the first log of the successful scored records of photo p
ScoredAt(p) ==
    { i \in 1..Len(FirstLog) :
         /\ FirstLog[i].kind = "record" /\ FirstLog[i].status = "success"
         /\ FirstLog[i].quality.kind = "scored" /\ FirstLog[i].photo = p }

PhotosOf(lines) == { lines[i].photo : i \in 1..Len(lines) }

\* C13: the per-photo table of a log has exactly one row for each photo with a
\* successful scored record and none for any other photo; the row is printed
\* from a record of that photo whose composite score is maximal and whose
\* run_index is the lowest among the maximal ones, whatever styles the log holds
\* for the photo.
C13_PerPhotoBest ==
    FirstRunPrinted =>
       LET rows == FirstRun.report.per_photo[1].rows
       IN  /\ \A p \in PhotosOf(FirstLog) :
                Cardinality({ k \in 1..Len(rows) : rows[k].photo = p })
                   = IF ScoredAt(p) # {} THEN 1 ELSE 0
           /\ \A k \in 1..Len(rows) :
                \E i \in ScoredAt(rows[k].photo) :
                   /\ FirstLog[i] = rows[k].best
                   /\ \A j \in ScoredAt(rows[k].photo) :
                        \/ FirstLog[j].quality.composite_score
                              < FirstLog[i].quality.composite_score
                        \/ /\ FirstLog[j].quality.composite_score
                                 = FirstLog[i].quality.composite_score
                           /\ FirstLog[j].run_index >= FirstLog[i].run_index

\* C13 as amended: one row per photo with a successful scored record; the row
\* is printed from the record of that photo with the maximal composite score
\* that comes first in the log (first generated), which within one unit of work
\* is the one with the lowest run_index.
C13_PerPhotoFirstBest ==
    FirstRunPrinted =>
       LET rows == FirstRun.report.per_photo[1].rows
       IN  /\ \A p \in PhotosOf(FirstLog) :
                Cardinality({ k \in 1..Len(rows) : rows[k].photo = p })
                   = IF ScoredAt(p) # {} THEN 1 ELSE 0
           /\ \A k \in 1..Len(rows) :
                \E i \in ScoredAt(rows[k].photo) :
                   /\ FirstLog[i] = rows[k].best
                   /\ \A j \in ScoredAt(rows[k].photo) :
                        \/ FirstLog[j].quality.composite_score
                              < FirstLog[i].quality.composite_score
                        \/ /\ FirstLog[j].quality.composite_score
                                 = FirstLog[i].quality.composite_score
                           /\ j >= i

\* a log with two styles of one photo tied at the maximum, the later record
\* having the lower run_index, and the row printed from the earlier one
C13_Witness ==
    /\ FirstRunPrinted
    /\ \E i, j \in ScoredAt(AllPhotos[1]) :
          /\ i < j
          /\ FirstLog[i].style # FirstLog[j].style
          /\ FirstLog[i].quality.composite_score = FirstLog[j].quality.composite_score
          /\ FirstLog[j].run_index < FirstLog[i].run_index
          /\ \A k \in ScoredAt(AllPhotos[1]) :
                FirstLog[k].quality.composite_score <= FirstLog[i].quality.composite_score
          /\ FirstRun.report.per_photo[1].rows[1].best = FirstLog[i]

\* positions in the first log of the status=success records
SuccessAt ==
    { i \in 1..Len(FirstLog) : FirstLog[i].kind = "record" /\ FirstLog[i].status = "success" }

RECURSIVE SumOver(_, _)
SumOver(f, S) ==
    IF S = {} THEN 0
    ELSE LET x == CHOOSE x \in S : TRUE IN f[x] + SumOver(f, S \ {x})

\* row is the mean, min, max and count of f over the positions S, and is left
\* out when S is empty
RowIsStatsOf(row, f, S, per_tenth) ==
    IF S = {} THEN row = <<>>
    ELSE /\ row # <<>>
         /\ row[1].count = Cardinality(S)
         /\ row[1].mean = Value(RoundSigned(SumOver(f, S), Cardinality(S) * per_tenth))
         /\ \E i \in S : /\ row[1].min = Value(RoundSigned(f[i], per_tenth))
                         /\ \A j \in S : f[i] <= f[j]
         /\ \E i \in S : /\ row[1].max = Value(RoundSigned(f[i], per_tenth))
                         /\ \A j \in S : f[i] >= f[j]

\* the statistics of the summary other than cost
SummaryOverSuccesses(sm) ==
    LET scored == { i \in SuccessAt : FirstLog[i].quality.kind = "scored" }
        withSim == { i \in scored : FirstLog[i].quality.face_similarity_raw # <<>> }
        withTime == { i \in SuccessAt : FirstLog[i].total_elapsed_seconds # <<>> }
        passing == { i \in scored : FirstLog[i].quality.composite_score >= 700 }
    IN  /\ sm.ok = Cardinality(SuccessAt)
        /\ RowIsStatsOf(sm.composite,
                        [i \in scored |-> FirstLog[i].quality.composite_score], scored, 1)
        /\ RowIsStatsOf(sm.face_similarity,
                        [i \in withSim |-> FirstLog[i].quality.face_similarity_raw[1]],
                        withSim, 1000)
        /\ RowIsStatsOf(sm.color_vibrancy,
                        [i \in scored |-> FirstLog[i].quality.color_vibrancy], scored, 1)
        /\ RowIsStatsOf(sm.edge_cleanliness,
                        [i \in scored |-> FirstLog[i].quality.edge_cleanliness], scored, 1)
        /\ RowIsStatsOf(sm.time,
                        [i \in withTime |-> FirstLog[i].total_elapsed_seconds[1]],
                        withTime, 1)
        /\ IF scored = {} THEN sm.pass_rate = <<>>
           ELSE sm.pass_rate
                   = <<Value(Round(100 * Cardinality(passing), Cardinality(scored)))>>

WithCostAt == { i \in SuccessAt : FirstLog[i].total_cost_estimate # <<>> }

\* C14: in the summary of a run set with a success, the mean, min, max and
\* count of composite score, raw face similarity, vibrancy, edge cleanliness,
\* elapsed time and cost are those of the status=success records that have the
\* field, and the pass rate is the share of their composite scores >= 70.
C14_SummaryStatistics ==
    (FirstRunPrinted /\ SuccessAt # {}) =>
       LET sm == FirstRun.report.summaries[1]
       IN  /\ SummaryOverSuccesses(sm)
           /\ WithCostAt # {} =>
                 /\ sm.cost # <<>>
                 /\ {"mean", "min", "max", "count"} \subseteq DOMAIN sm.cost[1]

\* C14 as amended: as above for the five metrics other than cost; of cost the
\* summary shows the mean per run and the total, both over the status=success
\* records that have a cost.
C14_SummaryStatisticsCostMeanTotal ==
    (FirstRunPrinted /\ SuccessAt # {}) =>
       LET sm == FirstRun.report.summaries[1]
           costs == [i \in WithCostAt |-> FirstLog[i].total_cost_estimate[1]]
       IN  /\ SummaryOverSuccesses(sm)
           /\ IF WithCostAt = {} THEN sm.cost = <<>>
              ELSE /\ sm.cost # <<>>
                   /\ sm.cost[1].avg
                         = Value(Round(SumOver(costs, WithCostAt), 10 * Cardinality(WithCostAt)))
                   /\ sm.cost[1].total = Round(SumOver(costs, WithCostAt), 100)

\* successes scoring 75.0 and 62.0 and one error: 2 OK, 1 failed, pass rate
\* 50%, mean composite 68.5
C14_Witness ==
    /\ FirstRunPrinted
    /\ Len(FirstLog) = 3
    /\ \E i, j, k \in 1..3 :
          /\ FirstLog[i].status = "success" /\ FirstLog[i].quality.composite_score = 750
          /\ FirstLog[j].status = "success" /\ FirstLog[j].quality.composite_score = 620
          /\ FirstLog[k].status = "error"
    /\ LET sm == FirstRun.report.summaries[1]
       IN  /\ sm.ok = 2 /\ sm.failed = 1
           /\ sm.pass_rate = <<Value(50)>>
           /\ sm.composite[1].mean = Value(685)
           /\ sm.composite[1].count = 2

\* the first run printed its report, and no file it read holds a line that is
\* not JSON: it ran on record sets
RanOnRecordSets ==
    /\ Len(reports) >= 1 /\ rargs.output = <<>>
    /\ \A n \in 1..Len(rargs.results) :
          \A i \in 1..Len(files[rargs.results[n]].lines) :
             files[rargs.results[n]].lines[i].kind # "malformed"

\* the first log has no successful scored record (it is empty, or has no
\* success, or no success that was scored)
NothingScored == \A p \in PhotosOf(FirstLog) : ScoredAt(p) = {}

ReportReadsOnly ==
    \A n \in 1..Len(rargs.results) :
       files'[rargs.results[n]] = files[rargs.results[n]]

\* C16: a run of the report changes none of the results files it reads, and a
\* second run on the same logs gives the report (or the failure) the first run
\* gave.
C16_ReportOnlyReads ==
    /\ [](Len(reports) = 2 => reports[2] = reports[1])
    /\ [][ReportReadsOnly]_vars








-----------------------------------------------------------------------------
(* Seeds of the attempts                                                    *)

\* C23: the attempts of a unit run with run_index 0, 1, ..., N-1 in that
\* order; the seed of an attempt is base_seed + run_index when a base seed
\* was given (0 included) and unset otherwise; the seed in the RunRecord is
\* the seed backend.generate was given.
C23_SeedPerAttempt ==
    /\ Len(gen_kwargs) = Len(log)
    /\ \A i \in 1..Len(log) :
          /\ log[i].run_index = (i - 1) % cfg.best_of
          /\ cfg.seed = <<>> => log[i].seed = <<>>
          /\ cfg.seed # <<>> => log[i].seed = <<cfg.seed[1] + log[i].run_index>>
          /\ gen_kwargs[i].seed = log[i].seed
    /\ pc = "running" => run_idx = Len(log) % cfg.best_of

C23_Witness ==
    /\ pc = "done"
    /\ cfg.seed = <<0>>
    /\ Len(log) = 3
    /\ cfg.best_of = 3
    /\ log[3].seed = <<2>>
    /\ gen_kwargs[3].seed = <<2>>

-----------------------------------------------------------------------------
(* Output files of a batch                                                  *)

\* record["output_path"] of a success record (line 221)
OutputOf(record) ==
    OutputPath(record.backend, record.style, record.photo, record.run_index)

\* the attempt whose image the file at path holds: the last one to save there
HolderOf(path) ==
    LET at == { k \in 1..Len(saved) : saved[k].path = path }
    IN  saved[CHOOSE k \in at : \A j \in at : j <= k].by

\* C29: two different attempts of a batch never save their image to the same
\* output path, so the output_path of each success record still holds that
\* attempt's own image.
C29_OutputsKept ==
    /\ \A a, b \in 1..Len(saved) : a # b => saved[a].path # saved[b].path
    /\ \A i \in 1..Len(log) :
          log[i].status = "success" => HolderOf(OutputOf(log[i])) = i

-----------------------------------------------------------------------------
(* Properties of the signal extractors                                      *)

\* the edge density of the scored image, in tenths of a percent
DensityNow == qin.generated.edge_density

\* C21: edge cleanliness is 100 for a density d in [5, 18], (d/3)*60 below
\* 3, 60 + (d-3)/2*40 in [3, 5) and 100 - (d-18)*5 floored at 0 above 18; so
\* 18 scores 100, 19 scores 95, 2 scores 40, the score is in [0, 100] and
\* the pieces agree at 3 and at 5.
C21_EdgePiecewise ==
    qpc = "returned" =>
        LET d == DensityNow
            s == qout.edge_cleanliness
        IN  /\ (50 <= d /\ d <= 180) => s = 1000
            /\ d < 30 => 3 * s = 60 * d
            /\ (30 <= d /\ d < 50) => 2 * s = 2 * 600 + (d - 30) * 40
            /\ d > 180 => s = (IF 1000 - (d - 180) * 5 < 0 THEN 0
                                ELSE 1000 - (d - 180) * 5)
            /\ d = 180 => s = 1000
            /\ d = 190 => s = 950
            /\ d = 20 => s = 400
            /\ 0 <= s /\ s <= 1000
            /\ d = 30 => (s = 600 /\ 3 * s = 60 * d)
            /\ d = 50 => (s = 1000 /\ 2 * s = 2 * 600 + (d - 30) * 40)

C21_Witness ==
    /\ qpc = "returned"
    /\ DensityNow = 190
    /\ qout.edge_cleanliness = 950
\* the print size get_puzzle_spec gives for the requested piece count
TargetNow == PUZZLE_SPECS[qin.target_pieces]

\* the artifact is at least as large as the print size on both axes
MeetsTarget ==
    /\ qin.generated.w >= TargetNow.print_width_px
    /\ qin.generated.h >= TargetNow.print_height_px

\* C22: resolution adequacy is min(width/target_width, height/target_height)
\* times 100, 100 when the artifact meets or exceeds the target on both axes,
\* and strictly below 100 when it is smaller than the target on either axis.
C22_ResolutionAdequacy ==
    qpc = "returned" =>
        LET w == qin.generated.w
            h == qin.generated.h
            s == qout.resolution
            byWidth  == Round(1000 * w, TargetNow.print_width_px)
            byHeight == Round(1000 * h, TargetNow.print_height_px)
        IN  /\ MeetsTarget => s = 1000
            /\ ~MeetsTarget => /\ s = IF byWidth <= byHeight THEN byWidth ELSE byHeight
                               /\ s < 1000
-----------------------------------------------------------------------------
(* The composite as a function of its signals                               *)

\* the dict assess_quality returns for the call at hand when its signals are
\* face and iq
VerdictOf(face, iq) ==
    QualityDict(qin.source_given,
                score_face_similarity(qin.source, qin.generated, qin.app_ok),
                face, iq, Composite(face, iq))

\* the values above v up to top that a signal is raised to
RaisedFrom(v, top) == { w \in {v + 1, v + (top \div 8), top} : v < w /\ w <= top }

\* the signal pairs (face, iq) that differ from the ones at hand in one signal,
\* which is higher
OneSignalRaised ==
    LET face == FaceSignalsNow
        iq == [k \in {"color_vibrancy", "edge_cleanliness", "color_diversity",
                      "resolution"} |-> ImageSignalsNow[k]]
    IN  UNION { { <<[face EXCEPT ![k] = w], iq>> : w \in RaisedFrom(face[k], 100000) }
                : k \in DOMAIN face }
        \cup UNION { { <<face, [iq EXCEPT ![k] = w]>> : w \in RaisedFrom(iq[k], 1000) }
                     : k \in DOMAIN iq }

\* C24: with the weight table fixed and non-negative, raising one signal while
\* the other five stay equal never lowers the composite (before or after its
\* rounding to one decimal) and never turns a pass verdict into a fail.
C24_MonotoneInEachSignal ==
    /\ \A k \in DOMAIN WEIGHTS : WEIGHTS[k] >= 0
    /\ qpc = "returned" =>
          \A p \in OneSignalRaised :
             /\ Composite(p[1], p[2]) >= Composite(FaceSignalsNow, ImageSignalsNow)
             /\ VerdictOf(p[1], p[2]).composite_score >= qout.composite_score
             /\ qout.pass => VerdictOf(p[1], p[2]).pass

\* a failing assessment that one higher signal turns into a pass
C24_Witness ==
    /\ qpc = "returned"
    /\ ~qout.pass
    /\ \E p \in OneSignalRaised :
          /\ VerdictOf(p[1], p[2]).pass
          /\ VerdictOf(p[1], p[2]).composite_score > qout.composite_score

-----------------------------------------------------------------------------
(* The pass verdict and the report's pass rate                              *)

\* C25: the pass verdict stored by assess_quality agrees with the report's
\* test composite_score >= 70 on the stored one-decimal score, so the pass
\* rate the report shows for the record alone is 100% exactly when its
\* verdict is true.
C25_VerdictAgreesWithReport ==
    qpc = "returned" =>
        /\ qout.pass <=> (qout.composite_score >= 10 * PassThreshold)
        /\ qout.pass <=> (PassRate(<<qout.composite_score>>) = Value(100))

-----------------------------------------------------------------------------
(* Properties of the web jobs                                               *)

Terminal == {"completed", "error"}

\* a job in 'completed' or 'error' keeps its status
TerminalStays ==
    \A j \in JobIds : jobs[j].status \in Terminal => jobs'[j].status = jobs[j].status

\* C26: every job that _process_job moves to 'processing' eventually reaches
\* 'completed' or 'error', whichever way fulfill_order ends (return,
\* exception, sys.exit on a photo smaller than 256x256), and a job in
\* 'completed' or 'error' never changes status again.
C26_JobsFinish ==
    /\ \A j \in JobIds :
          (jobs[j].status = "processing") ~> (jobs[j].status \in Terminal)
    /\ [][TerminalStays]_vars

-----------------------------------------------------------------------------
(* What _get_face_app hands out                                             *)

\* C27: _get_face_app never returns a model handle whose prepare step has
\* not completed: not after prepare raised on an earlier call, and not to a
\* thread that calls between the construction and the end of prepare.
C27_OnlyPreparedHandles ==
    \A t \in Threads :
       (~got[t].raised /\ got[t].handle # 0) => got[t].prepared

-----------------------------------------------------------------------------
(* The comparison against the summary tables                                *)

\* the first run printed a comparison
Compared ==
    /\ Len(reports) >= 1
    /\ ~FirstRun.raised
    /\ FirstRun.report.comparison # <<>>

\* a summary row (absent, or holding the statistic shown) and a comparison
\* cell show the same thing
SameShown(row, shown, cell) ==
    \/ row = <<>> /\ cell.na
    \/ row # <<>> /\ shown = cell

\* C28: for each run set the comparison's mean composite, mean face
\* similarity, pass rate, mean cost per run and mean time are computed over
\* the same records as the rows of that run set's summary table, so the two
\* tables agree, also when success records lack a cost or elapsed-time field.
C28_ComparisonMatchesSummary ==
    Compared =>
       \A i \in 1..Len(FirstRun.report.comparison) :
          LET sm == FirstRun.report.summaries[i]
              cmp == FirstRun.report.comparison[i]
              Mean1(row) == IF row = <<>> THEN NotApplicable ELSE row[1].mean
          IN  /\ SameShown(sm.composite, Mean1(sm.composite), cmp.composite)
              /\ SameShown(sm.pass_rate,
                           IF sm.pass_rate = <<>> THEN NotApplicable
                           ELSE sm.pass_rate[1], cmp.pass_rate)
              /\ (sm.face_similarity = <<>>) = cmp.face_similarity.na
              /\ sm.face_similarity # <<>> =>
                    LET d == cmp.face_similarity.value
                               - 10 * sm.face_similarity[1].mean.value
                    IN  -5 <= d /\ d <= 5
              /\ SameShown(sm.cost,
                           IF sm.cost = <<>> THEN NotApplicable ELSE sm.cost[1].avg,
                           cmp.cost)
              /\ SameShown(sm.time, Mean1(sm.time), cmp.time)

-----------------------------------------------------------------------------
(* The threshold flag of a face comparison                                  *)

\* the result of score_face_similarity in the call at hand
FaceResultNow == score_face_similarity(qin.source, qin.generated, qin.app_ok)

\* C30: in every result of score_face_similarity threshold_flag is true
\* exactly when the confidence tier is uncertain, different_person or
\* no_face_detected, and false exactly when it is high or likely, the
\* similarities 0.3, 0.5 and 0.6 included.
C30_FlagMatchesTier ==
    (qpc = "returned" /\ qin.source_given) =>
        /\ ~FaceResultNow.raised
        /\ FaceResultNow.confidence_level
              \in {"high", "likely", "uncertain", "different_person", "no_face_detected"}
        /\ FaceResultNow.threshold_flag
              <=> (FaceResultNow.confidence_level
                     \in {"uncertain", "different_person", "no_face_detected"})

====
